---- MODULE Spec2Model ----
(***************************************************************************)
(* A model of src/src/main.rs: main and the futures it builds and drives.  *)
(* Tasks are kept in a table; block_on and the poll of every future are    *)
(* small steps over an explicit poll stack, so that the order of polls,    *)
(* the laziness of construction and the propagation of a panic are all     *)
(* visible in the state.                                                   *)
(*                                                                         *)
(* Numbers keep their width: a u64 is eight base-256 limbs and a u8 one    *)
(* limb, least significant first, so u64::MAX and the u8 overflow of       *)
(* try_plus are the real ones.                                             *)
(***************************************************************************)
EXTENDS Integers, Sequences, FiniteSets, TLC

\* ------------------------------------------------------------------ bounds
\* Sample inputs: the u64 values 0..MaxSmall and u64::MAX-MaxSmall..u64::MAX.
MaxSmall == 5
\* Sample u8 operands: 0..MaxSmallU8 next to the operands main uses.
MaxSmallU8 == 2

\* --------------------------------------------------------------- numbers
Base == 256
U64Limbs == 8
U8Limbs == 1

RECURSIVE ToLimbs(_, _)
ToLimbs(n, w) == IF w = 0 THEN <<>> ELSE <<n % Base>> \o ToLimbs(n \div Base, w - 1)

U64(n) == ToLimbs(n, U64Limbs)
U8(n) == ToLimbs(n, U8Limbs)

U64Max == [i \in 1..U64Limbs |-> Base - 1]

RECURSIVE AddFrom(_, _, _, _)
AddFrom(a, b, i, c) ==
  IF i > Len(a) THEN [v |-> <<>>, carry |-> c > 0]
  ELSE LET s == a[i] + b[i] + c
           rest == AddFrom(a, b, i + 1, s \div Base)
       IN [v |-> <<s % Base>> \o rest.v, carry |-> rest.carry]

\* a + b in the width of a: the wrapped sum and whether it overflowed.
AddLimbs(a, b) == AddFrom(a, b, 1, 0)

RECURSIVE ColSum(_, _, _, _)
ColSum(a, b, k, i) ==
  IF i > Len(a) THEN 0
  ELSE (IF k + 1 - i \in 1..Len(b) THEN a[i] * b[k + 1 - i] ELSE 0) + ColSum(a, b, k, i + 1)

RECURSIVE MulFrom(_, _, _, _)
MulFrom(a, b, k, c) ==
  IF k > 2 * Len(a) THEN <<>>
  ELSE LET s == ColSum(a, b, k, 1) + c
       IN <<s % Base>> \o MulFrom(a, b, k + 1, s \div Base)

\* a * b in the width of a: the wrapped product and whether it overflowed.
MulLimbs(a, b) ==
  LET full == MulFrom(a, b, 1, 0)
  IN [v |-> SubSeq(full, 1, Len(a)),
      carry |-> \E i \in Len(a) + 1 .. 2 * Len(a) : full[i] # 0]

\* `b as u64` for a u8 b: zero extension.
AsU64(l) == [i \in 1..U64Limbs |-> IF i <= Len(l) THEN l[i] ELSE 0]

\* ---------------------------------------------------------------- values
\* Every value has the same shape: a tag, the limbs of a number, the items of
\* a tuple.
NoVal == [tag |-> "none", num |-> <<>>, items |-> <<>>]
Unit == [tag |-> "unit", num |-> <<>>, items |-> <<>>]
Num(l) == [tag |-> "num", num |-> l, items |-> <<>>]
Ok(l) == [tag |-> "ok", num |-> l, items |-> <<>>]
OkTuple(vs) == [tag |-> "ok", num |-> <<>>, items |-> vs]
Err == [tag |-> "err", num |-> <<>>, items |-> <<>>]

\* The result of one poll: nothing yet, Poll::Pending or Poll::Ready(val).
NoRet == [poll |-> "none", val |-> NoVal]
PendingRet == [poll |-> "Pending", val |-> NoVal]
Ready(v) == [poll |-> "Ready", val |-> v]

\* ----------------------------------------------------------- expressions
\* A call or macro of the source that evaluates to a future.
Call(kind, arg) == [kind |-> kind, arg |-> arg, kids |-> <<>>, asserts |-> FALSE]
MapSquare(e) == [kind |-> "map", arg |-> <<>>, kids |-> <<e>>, asserts |-> FALSE]
AsyncBlock(kind, es, asserts) == [kind |-> kind, arg |-> <<>>, kids |-> es, asserts |-> asserts]
NoExpr == Call("none", <<>>)

AsyncFnKinds == {"increment", "panic_buyer", "try_plus"}
BlockKinds == {"async_join", "async_try_join", "async_select"}

\* ------------------------------------------------------------- statements
LetStmt(line, e) == [op |-> "let", line |-> line, expr |-> e, dst |-> "_"]
BlockOnStmt(line, dst) == [op |-> "block_on", line |-> line, expr |-> NoExpr, dst |-> dst]
AssertStmt(line) == [op |-> "assert", line |-> line, expr |-> NoExpr, dst |-> "_"]

\* main, with line 47 commented out (as committed) or uncommented (as the
\* comment on line 46 invites).
main(panic_line) ==
  << LetStmt(39, Call("increment", U64(4))), BlockOnStmt(39, "result"),
     LetStmt(40, Call("increment_desugared", U64(4))), BlockOnStmt(40, "result2"),
     AssertStmt(41),
     LetStmt(44, Call("panic_buyer", <<>>)) >>
  \o (IF panic_line
      THEN << LetStmt(47, Call("activate_panic_buyer", <<>>)), BlockOnStmt(47, "_result2") >>
      ELSE <<>>)
  \o << LetStmt(55, MapSquare(Call("increment", U64(4)))), BlockOnStmt(56, "result3"),
        AssertStmt(57),
        LetStmt(62, AsyncBlock("async_join",
                      << Call("increment", U64(3)), Call("increment_desugared", U64(1)) >>, TRUE)),
        BlockOnStmt(62, "_"),
        LetStmt(69, AsyncBlock("async_try_join",
                      << Call("try_plus", <<U8(1), U8(1)>>), Call("try_plus", <<U8(200), U8(200)>>) >>, TRUE)),
        BlockOnStmt(69, "_"),
        LetStmt(76, AsyncBlock("async_select",
                      << Call("increment", U64(3)), Call("try_plus", <<U8(1), U8(1)>>) >>, TRUE)),
        BlockOnStmt(76, "_") >>

LocalNames == {"result", "result2", "_result2", "result3", "result4", "result5",
               "result6", "result7"}

VARIABLES
  overflow_checks,  \* the build: TRUE when `+` and `*` panic on overflow (debug)
  prog,             \* the statements being run
  pc,               \* the index in prog of the next statement
  status,           \* "running", "unwinding" (a panic travels up), "panicked", "exited"
  tasks,            \* every future constructed so far
  cur,              \* the future the last let constructed
  root,             \* the future block_on is driving, 0 outside block_on
  stack,            \* the futures whose poll is executing, innermost last
  ret,              \* what the poll that just returned gave its caller
  locals,           \* the local variables of main and of its async blocks
  polls,            \* history: every call of poll, in order
  steps,            \* history: how many times block_on polled its future
  applied           \* history: every call of the closure of map, in order

vars ==
  <<overflow_checks, prog, pc, status, tasks, cur, root, stack, ret, locals, polls, steps,
    applied>>

Top == stack[Len(stack)]
Pop == SubSeq(stack, 1, Len(stack) - 1)

\* ----------------------------------------------------------- source bodies
\* `n + 1` and `n * n`: the overflow check of the build decides between a
\* panic and the wrapped value.
Arith(s) == [panic |-> s.carry /\ overflow_checks, val |-> Num(s.v)]

\* increment with the carry out of the lowest byte lost.
increment_low_byte(n) == [panic |-> FALSE, val |-> Num([n EXCEPT ![1] = (n[1] + 1) % Base])]

\* async fn increment: the body, run by the first poll.
increment(n) == Arith(AddLimbs(n, U64(1)))

\* fn increment_desugared: the argument of ready(), evaluated by the call.
increment_desugared(n) == Arith(AddLimbs(n, U64(1)))

\* panic_buyer without its panic!.
panic_buyer_silent == [panic |-> FALSE, val |-> Unit]

\* async fn panic_buyer: the body, run by the first poll.
panic_buyer == [panic |-> TRUE, val |-> NoVal]

\* try_plus that fails whatever its operands are.
try_plus_failing(x, y) == [panic |-> FALSE, val |-> Err]

\* try_plus with a wrapping addition in place of checked_add.
try_plus_wrapping(x, y) == [panic |-> FALSE, val |-> Ok(AddLimbs(x, y).v)]

\* async fn try_plus: x.checked_add(y).ok_or(()).
try_plus(x, y) ==
  LET s == AddLimbs(x, y)
  IN [panic |-> FALSE, val |-> IF s.carry THEN Err ELSE Ok(s.v)]

\* map that calls the closure a second time, on its own result.
closure_applied_twice(v) ==
  LET o == Arith(MulLimbs(v.num, v.num))
  IN IF o.panic THEN o ELSE Arith(MulLimbs(o.val.num, o.val.num))

\* map that hands on the inner value and never calls the closure.
closure_not_applied(v) == [panic |-> FALSE, val |-> v]

\* The closure |n| n * n of line 55.
increment_and_square(v) == Arith(MulLimbs(v.num, v.num))

\* The body of the async fn a task was made from.
Body(t) ==
  IF t.kind = "increment" THEN increment(t.arg)
  ELSE IF t.kind = "try_plus" THEN try_plus(t.arg[1], t.arg[2])
  ELSE panic_buyer

\* ------------------------------------------------------------ construction
Node(kind, arg, body, kids, asserts) ==
  [kind |-> kind, arg |-> arg, body |-> body, kids |-> kids, asserts |-> asserts,
   st |-> "Fresh", step |-> 1, order |-> <<>>, out |-> NoVal]

\* Every async fn taken for a plain fn: the call of panic_buyer runs its body.
LazyBlocksOnly(kind) == kind \notin {"increment_desugared", "panic_buyer"}

\* A call of an async fn, an async block and an adapter run nothing of
\* their body; the call of a plain fn runs all of it.
Lazy(kind) == kind # "increment_desugared"

\* What the call of a plain fn runs before it returns its future.
CallBody(e) ==
  IF e.kind = "increment_desugared" THEN increment_desugared(e.arg) ELSE Body(e)

\* Evaluating an expression to a future. Nothing runs except what the source
\* evaluates eagerly: the argument of ready() in increment_desugared.
RECURSIVE Build(_, _)
Build(ts, e) ==
  IF e.kind = "map" THEN
    LET b == Build(ts, e.kids[1])
    IN IF b.panic THEN b
       ELSE [ts |-> Append(b.ts, Node("map", <<>>, <<>>, <<b.id>>, FALSE)),
             id |-> Len(b.ts) + 1, panic |-> FALSE]
  ELSE IF ~Lazy(e.kind) THEN
    LET o == CallBody(e)
    IN IF o.panic THEN [ts |-> ts, id |-> 0, panic |-> TRUE]
       ELSE [ts |-> Append(ts, Node("ready", o.val, <<>>, <<>>, FALSE)),
             id |-> Len(ts) + 1, panic |-> FALSE]
  ELSE [ts |-> Append(ts, Node(e.kind, e.arg, e.kids, <<>>, e.asserts)),
        id |-> Len(ts) + 1, panic |-> FALSE]

\* The operands of a macro, evaluated left to right.
RECURSIVE BuildAll(_, _, _)
BuildAll(ts, es, ids) ==
  IF es = <<>> THEN [ts |-> ts, ids |-> ids, panic |-> FALSE]
  ELSE LET b == Build(ts, Head(es))
       IN IF b.panic THEN [ts |-> b.ts, ids |-> ids, panic |-> TRUE]
          ELSE BuildAll(b.ts, Tail(es), Append(ids, b.id))

\* ------------------------------------------------------------------ main
NoLocals == [x \in LocalNames |-> NoVal]

InitWith(programs) ==
  /\ overflow_checks \in BOOLEAN
  /\ prog \in programs
  /\ pc = 1
  /\ status = "running"
  /\ tasks = <<>>
  /\ cur = 0
  /\ root = 0
  /\ stack = <<>>
  /\ ret = NoRet
  /\ locals = NoLocals
  /\ polls = <<>>
  /\ steps = 0
  /\ applied = <<>>

Init == InitWith({main(FALSE), main(TRUE)})

AtStmt(op) ==
  /\ status = "running"
  /\ root = 0
  /\ pc <= Len(prog)
  /\ prog[pc].op = op

\* A call of poll on future id, made by future `by` (0: block_on).
Polled(id, by) == [id |-> id, by |-> by, step |-> steps]

\* A statement that evaluates a future expression and does not drive it.
Let ==
  /\ AtStmt("let")
  /\ LET b == Build(tasks, prog[pc].expr)
     IN IF b.panic
        THEN /\ status' = "unwinding"
             /\ UNCHANGED <<tasks, cur, pc>>
        ELSE /\ tasks' = b.ts
             /\ cur' = b.id
             /\ pc' = pc + 1
             /\ UNCHANGED status
  /\ UNCHANGED <<applied, overflow_checks, prog, root, stack, ret, locals, polls, steps>>

\* The assert_eq! of lines 41 and 57.
AssertHolds(line, l) ==
  IF line = 41 THEN l["result"] = l["result2"]
  ELSE IF line = 57 THEN Num(U64(25)) = l["result3"]
  ELSE TRUE

Assertion ==
  /\ AtStmt("assert")
  /\ IF AssertHolds(prog[pc].line, locals)
     THEN pc' = pc + 1 /\ UNCHANGED status
     ELSE status' = "unwinding" /\ UNCHANGED pc
  /\ UNCHANGED <<applied, overflow_checks, prog, tasks, cur, root, stack, ret, locals, polls, steps>>

\* main returns.
Exit ==
  /\ status = "running"
  /\ root = 0
  /\ pc = Len(prog) + 1
  /\ status' = "exited"
  /\ UNCHANGED <<applied, overflow_checks, prog, pc, tasks, cur, root, stack, ret, locals, polls, steps>>

\* -------------------------------------------------------------- block_on
\* block_on takes the future and enters its loop.
BlockOn ==
  /\ AtStmt("block_on")
  /\ root' = cur
  /\ UNCHANGED <<applied, overflow_checks, prog, pc, status, tasks, cur, stack, ret, locals, polls, steps>>

\* block_on that polls again whatever the last poll returned.
DriverNeverDone(r) == FALSE

\* What block_on does with the Poll it gets: TRUE when it returns its value.
DriverDone(r) == r.poll = "Ready"

\* One turn of the loop: poll the future. After Poll::Pending the thread
\* parks until a wake, and no future of this program ever sends one.
DriverPoll ==
  /\ status = "running"
  /\ root # 0
  /\ stack = <<>>
  /\ ~DriverDone(ret)
  /\ ret.poll # "Pending"
  /\ stack' = <<root>>
  /\ ret' = NoRet
  /\ steps' = steps + 1
  /\ polls' = Append(polls, [id |-> root, by |-> 0, step |-> steps + 1])
  /\ UNCHANGED <<applied, overflow_checks, prog, pc, status, tasks, cur, root, locals>>

\* Poll::Ready(t) ends the loop: block_on returns t to main.
DriverReturn ==
  /\ status = "running"
  /\ root # 0
  /\ stack = <<>>
  /\ DriverDone(ret)
  /\ locals' = IF prog[pc].dst = "_" THEN locals ELSE [locals EXCEPT ![prog[pc].dst] = ret.val]
  /\ root' = 0
  /\ ret' = NoRet
  /\ pc' = pc + 1
  /\ UNCHANGED <<applied, overflow_checks, prog, status, tasks, cur, stack, polls, steps>>

\* A panic travels up through every poll in progress; block_on does not catch
\* it, so it ends main.
Unwind ==
  /\ status = "unwinding"
  /\ IF stack # <<>>
     THEN /\ tasks' = [tasks EXCEPT ![Top].st = "Poisoned"]
          /\ stack' = Pop
          /\ UNCHANGED status
     ELSE /\ status' = "panicked"
          /\ UNCHANGED <<tasks, stack>>
  /\ UNCHANGED <<applied, overflow_checks, prog, pc, cur, root, ret, locals, polls, steps>>

InPoll(kinds) ==
  /\ status = "running"
  /\ stack # <<>>
  /\ tasks[Top].kind \in kinds

Panics ==
  /\ status' = "unwinding"
  /\ UNCHANGED <<tasks, stack, ret>>

\* The record of a call of the closure of map future id on value v.
Applied(id, v) == [map |-> id, arg |-> v, step |-> steps]

\* The poll of future id returns Poll::Ready(v) to its caller.
Returns(v) ==
  /\ tasks' = [tasks EXCEPT ![Top].st = "Done", ![Top].out = v]
  /\ stack' = Pop
  /\ ret' = Ready(v)
  /\ UNCHANGED status

\* The poll in progress calls the poll of future id.
Calls(id) ==
  /\ stack' = Append(stack, id)
  /\ polls' = Append(polls, Polled(id, Top))

\* ----------------------------------------------------------- leaf futures
\* The future of an async fn without an await: the first poll runs the body;
\* a poll after that panics (resumed after completion).
PollAsyncFn ==
  /\ InPoll(AsyncFnKinds)
  /\ ret.poll = "none"
  /\ LET o == Body(tasks[Top])
     IN IF tasks[Top].st = "Fresh" /\ ~o.panic THEN Returns(o.val) ELSE Panics
  /\ UNCHANGED <<applied, overflow_checks, prog, pc, cur, root, locals, polls, steps>>

\* A ready() whose first poll returns Poll::Pending.
PollReadyPendingOnce ==
  /\ InPoll({"ready"})
  /\ ret.poll = "none"
  /\ IF tasks[Top].st = "Fresh"
     THEN /\ tasks' = [tasks EXCEPT ![Top].st = "Suspended"]
          /\ stack' = Pop
          /\ ret' = PendingRet
          /\ UNCHANGED status
     ELSE Returns(tasks[Top].arg)
  /\ UNCHANGED <<applied, overflow_checks, prog, pc, cur, root, locals, polls, steps>>

\* futures::future::ready: the first poll takes the value; a poll after that
\* panics (Ready polled after completion).
PollReady ==
  /\ InPoll({"ready"})
  /\ ret.poll = "none"
  /\ IF tasks[Top].st = "Fresh" THEN Returns(tasks[Top].arg) ELSE Panics
  /\ UNCHANGED <<applied, overflow_checks, prog, pc, cur, root, locals, polls, steps>>

\* --------------------------------------------------------------- adapters
\* async fn activate_panic_buyer: the first poll calls panic_buyer() and awaits
\* the future it returns.
PollAwait ==
  /\ InPoll({"activate_panic_buyer"})
  /\ LET t == tasks[Top]
         kid == Len(tasks) + 1
     IN IF ret.poll = "none" THEN
          IF t.st = "Fresh" THEN
            /\ tasks' = Append([tasks EXCEPT ![Top].st = "Suspended", ![Top].kids = <<kid>>],
                               Node("panic_buyer", <<>>, <<>>, <<>>, FALSE))
            /\ Calls(kid)
            /\ UNCHANGED <<status, ret>>
          ELSE IF t.st = "Suspended" THEN
            /\ Calls(t.kids[1])
            /\ UNCHANGED <<tasks, status, ret>>
          ELSE Panics /\ UNCHANGED polls
        ELSE IF ret.poll = "Ready" THEN Returns(Unit) /\ UNCHANGED polls
        ELSE stack' = Pop /\ UNCHANGED <<tasks, status, ret, polls>>
  /\ UNCHANGED <<applied, overflow_checks, prog, pc, cur, root, locals, steps>>

\* FutureExt::map: poll the inner future; when it is ready apply the closure
\* and complete. A poll after completion panics.
PollMap ==
  /\ InPoll({"map"})
  /\ LET t == tasks[Top]
     IN IF ret.poll = "none" THEN
          IF t.st = "Fresh" THEN
            /\ Calls(t.kids[1])
            /\ UNCHANGED <<tasks, status, ret, applied>>
          ELSE Panics /\ UNCHANGED <<polls, applied>>
        ELSE IF ret.poll = "Ready" THEN
          LET o == increment_and_square(ret.val)
          IN /\ IF o.panic THEN Panics ELSE Returns(o.val)
             /\ applied' = Append(applied, Applied(Top, ret.val))
             /\ UNCHANGED polls
        ELSE stack' = Pop /\ UNCHANGED <<tasks, status, ret, polls, applied>>
  /\ UNCHANGED <<overflow_checks, prog, pc, cur, root, locals, steps>>

\* ----------------------------------------------------------- async blocks
\* The first poll of an async block evaluates the operands of its macro, left
\* to right; the macro then polls them. A poll of a finished block panics.
AsyncBlockStart ==
  /\ InPoll(BlockKinds)
  /\ tasks[Top].st # "Suspended"
  /\ ret.poll = "none"
  /\ IF tasks[Top].st = "Fresh" THEN
       LET b == BuildAll(tasks, tasks[Top].body, <<>>)
       IN IF b.panic
          THEN /\ status' = "unwinding"
               /\ tasks' = b.ts
          ELSE /\ tasks' = [b.ts EXCEPT ![Top].st = "Suspended", ![Top].kids = b.ids]
               /\ UNCHANGED status
     ELSE /\ status' = "unwinding"
          /\ UNCHANGED tasks
  /\ UNCHANGED <<applied, overflow_checks, prog, pc, cur, root, stack, ret, locals, polls, steps>>

\* MaybeDone and Fuse keep a finished operand and do not poll it again.
Finished(id) == tasks[id].st = "Done"

\* The rest of the block once its macro has a value: bind it, run the
\* assertion next to it, return ().
Finish(l, holds) ==
  /\ locals' = l
  /\ IF holds THEN Returns(Unit) ELSE Panics

\* A macro that leaves out the operand after the one it polled.
NextOperandSkipping ==
  /\ tasks' = [tasks EXCEPT ![Top].step = tasks[Top].step + 2]
  /\ ret' = NoRet
  /\ UNCHANGED <<status, stack, locals, polls>>

\* The macro moves on to its next operand.
NextOperand ==
  /\ tasks' = [tasks EXCEPT ![Top].step = tasks[Top].step + 1]
  /\ ret' = NoRet
  /\ UNCHANGED <<status, stack, locals, polls>>

\* No operand is left and some are not finished: Poll::Pending.
StayPending ==
  /\ tasks' = [tasks EXCEPT ![Top].step = 1, ![Top].order = <<>>]
  /\ stack' = Pop
  /\ ret' = PendingRet
  /\ UNCHANGED <<status, locals, polls>>

\* join! and try_join! that poll their operands from the last to the first.
OperandReversed(kids, i) == kids[Len(kids) + 1 - i]

\* The operand join! and try_join! poll at position i of a poll: they go
\* through their operands in the order written.
Operand(kids, i) == kids[i]

\* join! with the outputs in the reverse of the operands' order.
JoinOutputReversed(kids) == [k \in 1..Len(kids) |-> tasks[kids[Len(kids) + 1 - k]].out]

\* The tuple join! returns: the outputs of its operands.
JoinOutput(kids) == [k \in 1..Len(kids) |-> tasks[kids[k]].out]

\* assert_eq!((4, 2), (result4, result5)) of line 64.
AssertL64(l) == <<Num(U64(4)), Num(U64(2))>> = <<l["result4"], l["result5"]>>

\* join! of line 63 and the rest of its block.
PollJoin ==
  /\ InPoll({"async_join"})
  /\ tasks[Top].st = "Suspended"
  /\ LET t == tasks[Top]
         i == t.step
     IN IF ret.poll # "none" THEN NextOperand
        ELSE IF i <= Len(t.kids) THEN
          IF Finished(Operand(t.kids, i)) THEN NextOperand
          ELSE Calls(Operand(t.kids, i)) /\ UNCHANGED <<tasks, status, ret, locals>>
        ELSE IF \A k \in 1..Len(t.kids) : Finished(t.kids[k]) THEN
          LET outs == JoinOutput(t.kids)
              l == [locals EXCEPT !["result4"] = outs[1], !["result5"] = outs[2]]
          IN Finish(l, t.asserts => AssertL64(l)) /\ UNCHANGED polls
        ELSE StayPending
  /\ UNCHANGED <<applied, overflow_checks, prog, pc, cur, root, steps>>

\* try_join! that looks for an error only at its last operand.
ShortCircuitsAtLast(id) == tasks[id].out.tag = "err" /\ id = Len(tasks)

\* try_join! that waits for every operand, as join! does.
ShortCircuitsNever(id) == FALSE

\* What try_join! does with a finished operand: TRUE when it returns the
\* operand's error at once.
ShortCircuits(id) == tasks[id].out.tag = "err"

\* try_join! with the outputs in the reverse of the operands' order.
TryJoinOutputReversed(kids) ==
  OkTuple([k \in 1..Len(kids) |-> Num(tasks[kids[Len(kids) + 1 - k]].out.num)])

\* The value try_join! returns when every operand is Ok.
TryJoinOutput(kids) == OkTuple([k \in 1..Len(kids) |-> Num(tasks[kids[k]].out.num)])

\* assert!(result6.is_err()) of line 71.
AssertL71(l) == l["result6"].tag = "err"

\* try_join! of line 70 and the rest of its block.
PollTryJoin ==
  /\ InPoll({"async_try_join"})
  /\ tasks[Top].st = "Suspended"
  /\ LET t == tasks[Top]
         i == t.step
     IN IF ret.poll = "Ready" THEN
          /\ ret' = NoRet
          /\ UNCHANGED <<tasks, status, stack, locals, polls>>
        ELSE IF ret.poll = "Pending" THEN NextOperand
        ELSE IF i <= Len(t.kids) THEN
          IF Finished(Operand(t.kids, i)) THEN
            IF ShortCircuits(Operand(t.kids, i)) THEN
              LET l == [locals EXCEPT !["result6"] = tasks[Operand(t.kids, i)].out]
              IN Finish(l, t.asserts => AssertL71(l)) /\ UNCHANGED polls
            ELSE NextOperand
          ELSE Calls(Operand(t.kids, i)) /\ UNCHANGED <<tasks, status, ret, locals>>
        ELSE IF \A k \in 1..Len(t.kids) : Finished(t.kids[k]) THEN
          LET l == [locals EXCEPT !["result6"] = TryJoinOutput(t.kids)]
          IN Finish(l, t.asserts => AssertL71(l)) /\ UNCHANGED polls
        ELSE StayPending
  /\ UNCHANGED <<applied, overflow_checks, prog, pc, cur, root, steps>>

\* The orders in which one poll of select! may try its branches: it shuffles
\* them pseudo-randomly on every poll.
SelectOrders(n) ==
  {o \in [1..n -> 1..n] : \A a, b \in 1..n : a # b => o[a] # o[b]}

\* select! that runs the handler at the position in the shuffled order.
SelectWinnerByPosition(order, i) == i

\* The branch whose handler select! runs: the one whose future it just polled.
SelectWinner(order, i) == order[i]

\* The branch handlers of lines 78 and 79: `a => a` and
\* `b => b.unwrap() as u64`.
SelectHandler(branch, v) ==
  IF branch = 1 THEN [panic |-> FALSE, val |-> v]
  ELSE IF v.tag = "err" THEN [panic |-> TRUE, val |-> NoVal]
  ELSE [panic |-> FALSE, val |-> Num(AsU64(v.num))]

\* select! that polls every branch before it takes a ready one.
SelectReadyAfterAll(r, i, n) == r.poll = "Ready" /\ i = n

\* select! takes the first branch whose poll returns Poll::Ready and polls no
\* branch after it.
SelectReady(r, i, n) == r.poll = "Ready"

\* select! of line 77 and the rest of its block.
PollSelect ==
  /\ InPoll({"async_select"})
  /\ tasks[Top].st = "Suspended"
  /\ LET t == tasks[Top]
         i == t.step
     IN IF SelectReady(ret, i, Len(t.kids)) THEN
          LET h == SelectHandler(SelectWinner(t.order, i), ret.val)
          IN IF h.panic THEN Panics /\ UNCHANGED <<locals, polls>>
             ELSE Finish([locals EXCEPT !["result7"] = h.val], TRUE) /\ UNCHANGED polls
        ELSE IF ret.poll = "Pending" THEN NextOperand
        ELSE IF t.order = <<>> THEN
          /\ \E o \in SelectOrders(Len(t.kids)) : tasks' = [tasks EXCEPT ![Top].order = o]
          /\ UNCHANGED <<status, stack, ret, locals, polls>>
        ELSE IF i <= Len(t.kids) THEN
          IF Finished(t.kids[t.order[i]]) THEN NextOperand
          ELSE Calls(t.kids[t.order[i]]) /\ UNCHANGED <<tasks, status, ret, locals>>
        ELSE IF \A k \in 1..Len(t.kids) : Finished(t.kids[k]) THEN
          Panics /\ UNCHANGED <<locals, polls>>
        ELSE StayPending
  /\ UNCHANGED <<applied, overflow_checks, prog, pc, cur, root, steps>>

\* ----------------------------------------------------------- specification
Next ==
  \/ Let
  \/ Assertion
  \/ Exit
  \/ BlockOn
  \/ DriverPoll
  \/ DriverReturn
  \/ Unwind
  \/ PollAsyncFn
  \/ PollReady
  \/ PollAwait
  \/ PollMap
  \/ AsyncBlockStart
  \/ PollJoin
  \/ PollTryJoin
  \/ PollSelect

Spec == Init /\ [][Next]_vars

\* ------------------------------------------------------------------ cases
\* The statements of main and of tests::test_increment with other operands:
\* one program for each choice of operands from the samples.
NearMax(k) == [i \in 1..U64Limbs |-> IF i = 1 THEN Base - 1 - k ELSE Base - 1]

\* 2^32 - 1 and 2^32: the largest u64 whose square fits, and the next one.
Sqrt64 == << [i \in 1..U64Limbs |-> IF i <= 4 THEN Base - 1 ELSE 0],
             [i \in 1..U64Limbs |-> IF i = 5 THEN 1 ELSE 0] >>

SampleU64 ==
  {U64(k) : k \in 0..MaxSmall} \cup {NearMax(k) : k \in 0..MaxSmall}
  \cup {U64(255), U64(65535), Sqrt64[1], Sqrt64[2]}

SampleU8 ==
  {U8(k) : k \in 0..MaxSmallU8} \cup {U8(Base - 1 - k) : k \in 0..MaxSmallU8}
  \cup {U8(1), U8(2), U8(200)}

SampleTryPlus == {Call("try_plus", <<x, y>>) : x, y \in SampleU8}

\* Lines 39 to 41 (and lines 91 to 93) for n.
CaseIncrement(n) ==
  << LetStmt(39, Call("increment", n)), BlockOnStmt(39, "result"),
     LetStmt(40, Call("increment_desugared", n)), BlockOnStmt(40, "result2"),
     AssertStmt(41) >>

\* Lines 55 and 56 for a future e.
CaseMap(e) == << LetStmt(55, MapSquare(e)), BlockOnStmt(56, "result3") >>

\* Lines 62 to 82 for other operands, without the assertions on their values.
CaseBlock(line, kind, es) == << LetStmt(line, AsyncBlock(kind, es, FALSE)), BlockOnStmt(line, "_") >>

\* try_plus of line 70 on its own, driven by block_on, for operands x and y.
CaseTryPlus(x, y) ==
  << LetStmt(70, Call("try_plus", <<x, y>>)), BlockOnStmt(70, "result6") >>

\* Every value of u8.
AllU8 == {U8(k) : k \in 0..(Base - 1)}

\* Lines 44 and 47.
CasePanic ==
  << LetStmt(44, Call("panic_buyer", <<>>)),
     LetStmt(47, Call("activate_panic_buyer", <<>>)), BlockOnStmt(47, "_result2") >>

Cases ==
  {CaseIncrement(n) : n \in SampleU64}
  \cup {CaseMap(Call(k, n)) : k \in {"increment", "increment_desugared"}, n \in SampleU64}
  \cup {CaseBlock(62, "async_join", <<Call("increment", a), Call("increment_desugared", b)>>) :
          a, b \in SampleU64}
  \cup {CaseBlock(69, "async_try_join", <<p, q>>) : p, q \in SampleTryPlus}
  \cup {CaseBlock(76, "async_select", <<Call("increment", n), p>>) :
          n \in SampleU64, p \in SampleTryPlus}
  \cup {CaseTryPlus(x, y) : x, y \in AllU8}
  \cup {CasePanic}

InitCases == InitWith(Cases)

SpecCases == InitCases /\ [][Next]_vars

\* ----------------------------------------------------------------- claims
Faulted == status \in {"unwinding", "panicked"}

\* The block_on of statement i has returned.
Returned(i) == pc > i

\* r = n + 1 as numbers, said limb by limb: the low limbs of n that are all
\* Base - 1 become 0, the limb above them goes up by one, the rest stay.
IsSucc(n, r) ==
  \E k \in 1..Len(n) :
    /\ \A i \in 1..(k - 1) : n[i] = Base - 1 /\ r[i] = 0
    /\ r[k] = n[k] + 1
    /\ \A i \in (k + 1)..Len(n) : r[i] = n[i]

IsCaseIncrement == Len(prog) = 5 /\ prog[1].expr.kind = "increment"

\* C1: for every u64 n with n + 1 representable, block_on(increment(n)) returns
\* n + 1 without a panic, block_on(increment_desugared(n)) returns the same
\* value, and n = 3 gives 4.
C1_IncrementReturnsSuccessor ==
  (IsCaseIncrement /\ prog[1].expr.arg # U64Max) =>
    LET n == prog[1].expr.arg
    IN /\ ~Faulted
       /\ Returned(2) => locals["result"].tag = "num" /\ IsSucc(n, locals["result"].num)
       /\ Returned(2) /\ n = U64(3) => locals["result"] = Num(U64(4))
       /\ Returned(4) => locals["result2"] = locals["result"]

\* increment(255) and increment_desugared(255) were both driven: the carry case.
C1_Witness ==
  /\ IsCaseIncrement
  /\ prog[1].expr.arg = U64(255)
  /\ status = "exited"
  /\ locals["result"] = Num(<<0, 1, 0, 0, 0, 0, 0, 0>>)
  /\ locals["result2"] = locals["result"]

IsCaseTryJoin == prog[1].expr.kind = "async_try_join" /\ ~prog[1].expr.asserts

\* Operand k of the try_join! of the case overflows u8: x + y > 255.
Overflows(k) ==
  LET a == prog[1].expr.kids[k].arg IN a[1][1] + a[2][1] > Base - 1

\* x + y of operand k, as a number.
SumOf(k) ==
  LET a == prog[1].expr.kids[k].arg IN a[1][1] + a[2][1]

\* C2: try_join! over two try_plus futures of which at least one overflows u8,
\* in either position, gives an error and never an Ok value.
C2_TryJoinFailsOnOverflow ==
  (IsCaseTryJoin /\ (Overflows(1) \/ Overflows(2))) =>
    /\ ~Faulted
    /\ locals["result6"].tag \in {"none", "err"}
    /\ Returned(2) => locals["result6"] = Err

\* try_join![try_plus(200, 200), try_plus(1, 1)] was driven: the overflow is
\* in the first position, the one main does not try.
C2_Witness ==
  /\ IsCaseTryJoin
  /\ prog[1].expr.kids[1].arg = <<U8(200), U8(200)>>
  /\ prog[1].expr.kids[2].arg = <<U8(1), U8(1)>>
  /\ status = "exited"
  /\ locals["result6"] = Err

\* C3: try_join! gives Ok only if every operand succeeded, with the values in
\* the order of the operands; when every operand succeeds it gives Ok, and
\* try_join![try_plus(1, 1), try_plus(2, 2)] gives Ok((2, 4)).
C3_TryJoinReadyOnlyIfAllSucceed ==
  IsCaseTryJoin =>
    /\ locals["result6"].tag = "ok" =>
         /\ ~Overflows(1) /\ ~Overflows(2)
         /\ locals["result6"].items = <<Num(U8(SumOf(1))), Num(U8(SumOf(2)))>>
         /\ \A id \in 1..Len(tasks) :
              tasks[id].kind = "try_plus" => tasks[id].st = "Done" /\ tasks[id].out.tag = "ok"
    /\ (Returned(2) /\ ~Overflows(1) /\ ~Overflows(2)) => locals["result6"].tag = "ok"

C3_Witness ==
  /\ IsCaseTryJoin
  /\ prog[1].expr.kids[1].arg = <<U8(1), U8(1)>>
  /\ prog[1].expr.kids[2].arg = <<U8(2), U8(2)>>
  /\ status = "exited"
  /\ locals["result6"] = OkTuple(<<Num(U8(2)), Num(U8(4))>>)

\* C4: in main, join![increment(3), increment_desugared(1)] gives a value only
\* when both operands have finished, and the value is (4, 2) in that order,
\* never (2, 4).
C4_JoinPreservesOrder ==
  LET joins == {id \in 1..Len(tasks) : tasks[id].kind = "async_join"}
  IN (\/ locals["result4"] # NoVal
      \/ locals["result5"] # NoVal
      \/ \E id \in joins : tasks[id].st = "Done") =>
       /\ joins # {}
       /\ \A id \in joins :
            /\ \A k \in 1..Len(tasks[id].kids) : tasks[tasks[id].kids[k]].st = "Done"
            /\ Len(tasks[id].kids) = 2
            /\ tasks[tasks[id].kids[1]].out = Num(U64(4))
            /\ tasks[tasks[id].kids[2]].out = Num(U64(2))
       /\ locals["result4"] = Num(U64(4))
       /\ locals["result5"] = Num(U64(2))

C4_Witness ==
  /\ prog = main(FALSE)
  /\ status = "exited"
  /\ locals["result4"] = Num(U64(4))
  /\ locals["result5"] = Num(U64(2))

\* The futures that were polled, in the order of the polls.
PolledIds == [j \in 1..Len(polls) |-> polls[j].id]

\* Future id was polled n times.
PollCount(id) == Cardinality({j \in 1..Len(polls) : polls[j].id = id})

\* The async block of the select! of main, if it was constructed.
SelectBlocks == {id \in 1..Len(tasks) : tasks[id].kind = "async_select"}

PanicBuyers == {id \in 1..Len(tasks) : tasks[id].kind = "panic_buyer"}

\* The index in prog of the statement of a line, 0 when it has none.
StmtAt(line, op) ==
  IF \E i \in 1..Len(prog) : prog[i].line = line /\ prog[i].op = op
  THEN CHOOSE i \in 1..Len(prog) : prog[i].line = line /\ prog[i].op = op
  ELSE 0

\* C6: in main, constructing panic_buyer() on line 44 raises no fault and has
\* no effect: main goes on to the next statement, the future stays untouched
\* while it is not polled, and a fault happens only while block_on is driving
\* a future and after a panic_buyer future was polled.
C6_Laziness ==
  /\ pc = StmtAt(44, "let") + 1 =>
       /\ status = "running"
       /\ PanicBuyers # {}
       /\ locals = [NoLocals EXCEPT !["result"] = Num(U64(5)), !["result2"] = Num(U64(5))]
  /\ \A id \in PanicBuyers : PollCount(id) = 0 => tasks[id].st = "Fresh"
  /\ Faulted =>
       /\ root # 0
       /\ \E id \in PanicBuyers : PollCount(id) = 1

\* main with line 47 commented out has returned; the future of line 44 was
\* constructed and never polled.
C6_Witness ==
  /\ prog = main(FALSE)
  /\ status = "exited"
  /\ \E id \in PanicBuyers : PollCount(id) = 0 /\ tasks[id].st = "Fresh"

\* C7: in main with line 47 uncommented, block_on(activate_panic_buyer()) never
\* returns: no value or Result reaches _result2, no statement after line 47
\* runs, main does not exit, and once the panic has left block_on the future
\* block_on was driving is the one of activate_panic_buyer, abandoned mid-poll.
C7_PanicPropagates ==
  prog = main(TRUE) =>
    /\ pc <= StmtAt(47, "block_on")
    /\ locals["_result2"] = NoVal
    /\ locals["result3"] = NoVal
    /\ status # "exited"
    /\ (root # 0 /\ tasks[root].kind = "activate_panic_buyer") => ~DriverDone(ret)
    /\ status = "panicked" =>
         /\ stack = <<>>
         /\ pc = StmtAt(47, "block_on")
         /\ root # 0
         /\ tasks[root].kind = "activate_panic_buyer"
         /\ tasks[root].st = "Poisoned"

C7_Witness ==
  /\ prog = main(TRUE)
  /\ status = "panicked"
  /\ root # 0
  /\ tasks[root].kind = "activate_panic_buyer"

IsCaseMap == prog[1].expr.kind = "map"

\* A u64 below 2^15, whose square TLC's integers hold.
SmallU64(l) == l[2] < 128 /\ \A i \in 3..Len(l) : l[i] = 0

\* The number of a u64 below 2^15.
ToNat(l) == l[1] + Base * l[2]

\* C8: block_on(task.map(|n| n * n)) returns the square of the value task
\* produces: 16 for a ready future of 4 and 25 for increment(4).
C8_MapAppliesClosure ==
  (IsCaseMap /\ Returned(2)) =>
    LET v == tasks[1].out
        r == locals["result3"]
    IN /\ tasks[1].st = "Done"
       /\ r.tag = "num"
       /\ r.num = MulLimbs(v.num, v.num).v
       /\ SmallU64(v.num) => U64(ToNat(v.num) * ToNat(v.num)) = r.num
       /\ prog[1].expr.kids[1] = Call("increment_desugared", U64(3)) => r = Num(U64(16))
       /\ prog[1].expr.kids[1] = Call("increment", U64(4)) => r = Num(U64(25))

\* ready(4).map(|n| n * n) was driven.
C8_Witness ==
  /\ IsCaseMap
  /\ prog[1].expr.kids[1] = Call("increment_desugared", U64(3))
  /\ status = "exited"
  /\ tasks[1].kind = "ready"
  /\ tasks[1].out = Num(U64(4))
  /\ locals["result3"] = Num(U64(16))

Terminal(t) == t.st \in {"Done", "Poisoned"}

\* C9: in main, a future that has finished keeps its state and its output,
\* and no poll is made of a future that has finished.
C9_SingleUse ==
  [][ /\ \A id \in 1..Len(tasks) :
           Terminal(tasks[id]) => tasks'[id].st = tasks[id].st /\ tasks'[id].out = tasks[id].out
      /\ Len(polls') > Len(polls) =>
           LET p == polls'[Len(polls')]
           IN /\ Len(polls') = Len(polls) + 1
              /\ p.id <= Len(tasks) => ~Terminal(tasks[p.id]) ]_vars

\* main has returned: every future it drove finished and was polled once; the
\* children of join! and try_join! among them.
C9_Witness ==
  /\ prog = main(FALSE)
  /\ status = "exited"
  /\ \A id \in 1..Len(tasks) : tasks[id].st = "Done" => PollCount(id) = 1
  /\ Cardinality({id \in 1..Len(tasks) : tasks[id].st = "Done"}) >= 11

\* The calls of block_on that polled: one entry per poll made by block_on.
DriverPolls == {j \in 1..Len(polls) : polls[j].by = 0}

\* main has returned after n calls of block_on, each of which polled one
\* future of its own and saw it finish.
BlockOnsDone(n) ==
  /\ status = "exited"
  /\ root = 0
  /\ stack = <<>>
  /\ steps = n
  /\ Cardinality({polls[j].id : j \in DriverPolls}) = n
  /\ \A j \in DriverPolls : tasks[polls[j].id].st = "Done"

\* The single thread of main keeps running while it has a step to take.
FairSpec == Spec /\ WF_vars(Next)

\* C10 as stated: main with line 47 commented out returns after five calls of
\* block_on, each of which drove one future to its end.
C10_FiveBlockOns == (prog = main(FALSE) /\ status = "exited") => BlockOnsDone(5)

\* C10 amended: main with line 47 commented out terminates: its six calls of
\* block_on (lines 39, 40, 56, 62, 69 and 76) run one after another, each
\* drives one future to its end and returns, and while one is driving, every
\* poll in progress belongs to its future.
C10_MainTerminates ==
  /\ (prog = main(FALSE)) ~> BlockOnsDone(6)
  /\ [](stack # <<>> => root # 0 /\ stack[1] = root)

C10_Witness == prog = main(FALSE) /\ BlockOnsDone(6)

\* C11 as stated (and as the comment on line 13 says): increment_desugared is
\* equivalent to increment for every n, u64::MAX included: a call of either
\* raises no fault, so a fault happens only while block_on drives a future,
\* and driven one after the other they return the same value.
C11_DesugaredEquivalent ==
  (IsCaseIncrement \/ IsCaseMap) =>
    /\ Faulted => root # 0 /\ polls # <<>>
    /\ (IsCaseIncrement /\ Returned(4)) => locals["result2"] = locals["result"]

\* The futures of the operands of the macro of the case, in operand order,
\* once its async block has evaluated them.
CaseKids == IF Len(tasks) >= 1 THEN tasks[1].kids ELSE <<>>

\* The operands of try_join! that overflow, by index.
Overflowing == {k \in 1..Len(prog[1].expr.kids) : Overflows(k)}

\* C12: try_join! short-circuits: when an operand fails, result6 is that error
\* in the same turn of block_on, the operands after it are never polled, and
\* of several failing operands the one reported is the one with the lowest
\* index: every operand before it was polled once and is Ok.
C12_TryJoinShortCircuits ==
  (IsCaseTryJoin /\ locals["result6"].tag = "err") =>
    /\ Overflowing # {}
    /\ steps = 1
    /\ Len(CaseKids) = 2
    /\ LET first == CHOOSE k \in Overflowing : \A j \in Overflowing : k <= j
       IN /\ PollCount(CaseKids[first]) = 1
          /\ locals["result6"] = tasks[CaseKids[first]].out
          /\ \A k \in 1..Len(CaseKids) :
               /\ k < first => PollCount(CaseKids[k]) = 1 /\ tasks[CaseKids[k]].out.tag = "ok"
               /\ k > first => PollCount(CaseKids[k]) = 0 /\ tasks[CaseKids[k]].st = "Fresh"

\* try_join![try_plus(200, 200), try_plus(255, 255)] was driven: both operands
\* would fail, the first was polled and the second never was.
C12_Witness ==
  /\ IsCaseTryJoin
  /\ prog[1].expr.kids[1].arg = <<U8(200), U8(200)>>
  /\ prog[1].expr.kids[2].arg = <<U8(255), U8(255)>>
  /\ status = "exited"
  /\ locals["result6"] = Err
  /\ PollCount(CaseKids[1]) = 1
  /\ PollCount(CaseKids[2]) = 0

\* The branches of select block s whose futures have completed.
DoneBranches(s) == {k \in 1..Len(tasks[s].kids) : tasks[tasks[s].kids[k]].st = "Done"}

\* C13: in the select! of main at most one branch is ever polled; once
\* result7 is bound exactly one branch has completed, the other one was never
\* polled and stays unpolled to the end of main, and result7 is the value of
\* the winner's handler alone.
C13_SelectAbandonsLoser ==
  \A s \in SelectBlocks :
    /\ Cardinality({k \in 1..Len(tasks[s].kids) : PollCount(tasks[s].kids[k]) > 0}) <= 1
    /\ locals["result7"] # NoVal =>
         /\ tasks[s].st = "Done"
         /\ Cardinality(DoneBranches(s)) = 1
         /\ \A w \in DoneBranches(s) :
              /\ locals["result7"] = SelectHandler(w, tasks[tasks[s].kids[w]].out).val
              /\ \A k \in 1..Len(tasks[s].kids) :
                   k # w => /\ PollCount(tasks[s].kids[k]) = 0
                            /\ tasks[tasks[s].kids[k]].st = "Fresh"
                            /\ tasks[tasks[s].kids[k]].out = NoVal

\* main has exited after select! took try_plus(1, 1): increment(3) was
\* abandoned without a poll.
C13_Witness ==
  /\ status = "exited"
  /\ prog = main(FALSE)
  /\ locals["result7"] = Num(U64(2))
  /\ \E s \in SelectBlocks :
       /\ Len(tasks[s].kids) = 2
       /\ PollCount(tasks[s].kids[1]) = 0
       /\ PollCount(tasks[s].kids[2]) = 1

\* The program is lines 62 and 63 with other operands.
IsCaseJoin == prog[1].expr.kind = "async_join"

\* The polls made of future id, as positions in the record of polls.
PollsOf(id) == {j \in 1..Len(polls) : polls[j].id = id}

Blocks(ks) == {b \in 1..Len(tasks) : tasks[b].kind \in ks /\ tasks[b].kids # <<>>}

\* The position among the operands of block b of its operand id.
KidIndex(b, id) == CHOOSE k \in 1..Len(tasks[b].kids) : tasks[b].kids[k] = id

\* The polls block b made, as positions in the record of polls.
PollsBy(b) == {j \in 1..Len(polls) : polls[j].by = b}

\* In block b every poll of an operand comes after a poll, in the same turn
\* of block_on, of each operand written before it.
InInputOrder(b) ==
  \A j \in PollsBy(b) :
    \A k \in 1..(KidIndex(b, polls[j].id) - 1) :
      \E h \in PollsBy(b) :
        /\ h < j
        /\ polls[h].step = polls[j].step
        /\ polls[h].id = tasks[b].kids[k]

MapFutures == {m \in 1..Len(tasks) : tasks[m].kind = "map"}

\* The calls of the closure made by map future m, as positions in the record.
CallsOf(m) == {j \in 1..Len(applied) : applied[j].map = m}

ReadyFutures == {id \in 1..Len(tasks) : tasks[id].kind = "ready"}

\* Future id is being polled.
OnStack(id) == \E j \in 1..Len(stack) : stack[j] = id

\* C17: a future made by ready(n + 1) is Ready at its very first poll: it is
\* polled at most once, once that poll has returned it has completed with
\* n + 1, and block_on, driving it, never gets Poll::Pending and returns its
\* value after exactly one poll.
C17_ReadyAtFirstPoll ==
  /\ \A id \in ReadyFutures :
       /\ PollCount(id) <= 1
       /\ tasks[id].st \in {"Fresh", "Done"}
       /\ (PollCount(id) = 1 /\ ~OnStack(id)) =>
            tasks[id].st = "Done" /\ tasks[id].out = tasks[id].arg
       /\ root = id => ret.poll # "Pending"
  /\ (IsCaseIncrement /\ Returned(4)) =>
       \E id \in ReadyFutures :
         /\ locals["result2"] = tasks[id].arg
         /\ \A j \in PollsOf(id) : polls[j].by = 0
         /\ PollCount(id) = 1
         /\ steps = 2

\* block_on(increment_desugared(3)) has returned 4 after one poll.
C17_Witness ==
  /\ IsCaseIncrement
  /\ prog[1].expr.arg = U64(3)
  /\ status = "exited"
  /\ locals["result2"] = Num(U64(4))
  /\ \E id \in ReadyFutures : PollCount(id) = 1 /\ tasks[id].st = "Done"

\* The program is try_plus(x, y) driven on its own.
IsCaseTryPlus == Len(prog) = 2 /\ prog[1].expr.kind = "try_plus"

\* C18: for all u8 x and y, block_on(try_plus(x, y)) never panics, in either
\* build, and returns Ok(x + y) when x + y <= 255 and Err(()) otherwise; it
\* never returns the wrapped sum (x + y) mod 256 as a success.
C18_TryPlusChecked ==
  IsCaseTryPlus =>
    /\ ~Faulted
    /\ Returned(2) =>
         LET x == prog[1].expr.arg[1][1]
             y == prog[1].expr.arg[2][1]
             r == locals["result6"]
         IN /\ x + y <= 255 => r = Ok(<<x + y>>)
            /\ x + y > 255 => r = Err /\ r # Ok(<<(x + y) % 256>>)
            /\ r.tag = "ok" => r.num[1] = x + y

\* block_on(try_plus(200, 56)) has returned Err(()): the sum is 256, one more
\* than a u8 holds.
C18_Witness ==
  /\ IsCaseTryPlus
  /\ prog[1].expr.arg = <<U8(200), U8(56)>>
  /\ status = "exited"
  /\ locals["result6"] = Err
  /\ PollCount(1) = 1

\* The values main binds before its select! block, line 47 left commented out.
MainResults ==
  /\ locals["result"] = Num(U64(5))
  /\ locals["result2"] = Num(U64(5))
  /\ locals["result3"] = Num(U64(25))
  /\ locals["result4"] = Num(U64(4))
  /\ locals["result5"] = Num(U64(2))
  /\ locals["result6"] = Err

\* C19: main as written (line 47 commented out) never panics, in either build
\* and for every shuffle select! draws: no assertion fails, the unwrap of line
\* 79 is reached only with an Ok, result7 is never anything but 4 or 2, and
\* when main returns every local has the value the assertions expect.
C19_MainNeverFaults ==
  prog = main(FALSE) =>
    /\ ~Faulted
    /\ locals["result7"] \in {NoVal, Num(U64(4)), Num(U64(2))}
    /\ \A s \in SelectBlocks :
         \A k \in DoneBranches(s) : k = 2 => tasks[tasks[s].kids[k]].out = Ok(U8(2))
    /\ status = "exited" =>
         /\ pc = Len(prog) + 1
         /\ MainResults
         /\ locals["result7"] # NoVal

\* main has returned with every assertion passed, select! having taken its
\* first branch: result7 is 4.
C19_Witness ==
  /\ prog = main(FALSE)
  /\ status = "exited"
  /\ MainResults
  /\ locals["result7"] = Num(U64(4))
  /\ \E s \in SelectBlocks : DoneBranches(s) = {1}

====
